---- MODULE Spec2Model ----
(***************************************************************************)
(* Service lifecycle and process control of services/serviceconfig.go:     *)
(* GetCommand (identity re-validation), Stop (interrupt -> wait -> kill),  *)
(* Status (with port discovery) and Start (Build then Launch), run against *)
(* a small operating system: a pid space, command lines, a process tree    *)
(* and a socket table.                                                     *)
(***************************************************************************)
EXTENDS Integers, Sequences, FiniteSets, TLC

\* ------------------------------------------------------------------ bounds
\* pids of the lifecycle specification are 1..MaxPid
MaxPid == 2
\* pids of the port-discovery specification are 1..MaxTreePid
MaxTreePid == 3
\* process-group ids the OS may resolve are 0..MaxPgid
MaxPgid == 2
\* longest socket table
MaxConns == 2
\* the count of connection table fetches stops at FetchCap
FetchCap == 2
\* longest launch_checks.ports list of a configuration document
MaxCfgPorts == 2

\* ------------------------------------------------------- program constants
\* waitForTerm(command, time.Second*5)
TimeoutMs == 5000
\* elapsed += time.Millisecond * 100
IntervalMs == 100

VARIABLES
    alive,            \* the pids of the live processes
    cmdlineOf,        \* pid -> command line (<<>> for a pid that is not live)
    parentOf,         \* pid -> parent pid, 0 for none; its domain is the pid space
    connTable,        \* the system-wide socket table, as net.Connections reports it
    osFaulty,         \* OS calls may fail for reasons of their own (EPERM, EIO, ...)
    walkFails,        \* the live pids whose proc.Children() call fails
    fetches,          \* net.Connections calls that returned a table, up to FetchCap
    cfgIn,            \* the JSON document handed to UnmarshalJSON
    cfgOut,           \* what UnmarshalJSON made of it
    pidFile,          \* content of the service's pid file, NoFile when absent
    launchPorts,      \* c.LaunchChecks.Ports
    connectionsCache, \* the package-level connection list cache
    op,               \* the operation in progress: idle, stop, status, start, build, launch
    pc,               \* its position
    cmdPid,           \* command.Pid of the ServiceCommand the operation holds
    elapsed,          \* waitForTerm's loop variable, in ms
    polls,            \* liveness checks waitForTerm has made in this operation
    tracker,          \* the CommandTracker calls of this operation, in order
    ret,              \* what the operation returned: none, nil, err
    result,           \* the ServiceStatus entry Status returned
    signals,          \* the signals this operation sent, in order
    clears,           \* clearState calls of this operation
    errAt,            \* the OS call whose error ended the operation
    fault,            \* that error was an OS failure, not a missing process
    pgid,             \* the group id killProcess resolved, -1 before
    calls,            \* Build / Launch invocations of this operation, in order
    stale0,           \* the persisted identity when the operation began:
                      \* absent, valid, dead (no such process), reused (another process)
    loadedPid,        \* command.Pid as GetCommand returned it, -1 before that
    prev              \* the operation that returned last: "staleStatus" for a Status
                      \* on a stale identity that met no OS failure, else "other"

opVars == <<op, pc, cmdPid, elapsed, polls, tracker, ret, result, signals, clears,
            errAt, fault, pgid, calls, stale0, loadedPid>>
vars == <<alive, cmdlineOf, parentOf, connTable, osFaulty, walkFails, fetches, cfgIn, cfgOut,
          pidFile, launchPorts,
          connectionsCache, op, pc, cmdPid, elapsed, polls, tracker, ret, result,
          signals, clears, errAt, fault, pgid, calls, stale0, loadedPid, prev>>

\* ------------------------------------------------------------ text helpers
\* c.Name, the identity token
Name == <<"s", "v">>

\* the command lines a process may have: empty, the name, the name inside, its
\* characters apart, its characters reversed
CmdLines == {<<>>, <<"s", "v">>, <<"x", "s", "v">>, <<"s", "x", "v">>, <<"v", "s">>}

RECURSIVE SeqsUpTo(_, _)
SeqsUpTo(S, n) ==
    IF n = 0 THEN {<<>>}
    ELSE LET shorter == SeqsUpTo(S, n - 1)
         IN  shorter \cup {Append(s, x) : s \in shorter, x \in S}

\* strings.Contains(s, substr)
Contains(s, substr) ==
    \E i \in 0..(Len(s) - Len(substr)) : SubSeq(s, i + 1, i + Len(substr)) = substr

Digits == <<"0", "1", "2", "3", "4", "5", "6", "7", "8", "9">>

\* strconv.Itoa
RECURSIVE ItoaNat(_)
ItoaNat(n) ==
    IF n < 10 THEN <<Digits[n + 1]>>
    ELSE Append(ItoaNat(n \div 10), Digits[(n % 10) + 1])

Itoa(n) == IF n < 0 THEN <<"-">> \o ItoaNat(0 - n) ELSE ItoaNat(n)

DigitVal(ch) == CHOOSE d \in 0..9 : Digits[d + 1] = ch
IsDigit(ch) == \E d \in 0..9 : Digits[d + 1] = ch

RECURSIVE ParseNat(_)
ParseNat(s) ==
    IF Len(s) = 0 THEN 0
    ELSE 10 * ParseNat(SubSeq(s, 1, Len(s) - 1)) + DigitVal(s[Len(s)])

\* strconv.Atoi: an optional sign, then one or more decimal digits
Atoi(s) ==
    LET signed == Len(s) > 0 /\ s[1] \in {"+", "-"}
        body == IF signed THEN Tail(s) ELSE s
    IN  IF Len(body) = 0 \/ \E i \in 1..Len(body) : ~IsDigit(body[i])
        THEN [ok |-> FALSE, val |-> 0]
        ELSE [ok |-> TRUE,
              val |-> IF signed /\ s[1] = "-" THEN 0 - ParseNat(body) ELSE ParseNat(body)]

\* --------------------------------------------------- the operating system
Pids == DOMAIN parentOf

\* os.Stat(pidFile) fails: there is no pid file
NoFile == <<"ENOENT">>

\* process.PidExists
PidExists(pid) == pid \in alive

\* the failure r of an OS call, possible when the OS is failing calls
Failing(r) == IF osFaulty THEN {r} ELSE {}

\* process.NewProcess. For a live pid it succeeds unless the OS call fails. For a
\* pid with no live process (0 included) the library's answer depends on the
\* platform: it opens /proc/<pid> and fails, or it only stores the pid.
NewProcess(pid) ==
    IF pid \in alive
    THEN {[err |-> FALSE, fault |-> FALSE]} \cup Failing([err |-> TRUE, fault |-> TRUE])
    ELSE {[err |-> FALSE, fault |-> FALSE], [err |-> TRUE, fault |-> FALSE]}

\* proc.Cmdline. A live pid has its command line; a missing one gives an error
\* or whatever the platform's lookup prints for it.
Cmdline(pid) ==
    IF pid \in alive
    THEN {[err |-> FALSE, fault |-> FALSE, cmdline |-> cmdlineOf[pid]]}
         \cup Failing([err |-> TRUE, fault |-> TRUE, cmdline |-> <<>>])
    ELSE {[err |-> TRUE, fault |-> FALSE, cmdline |-> <<>>]}
         \cup {[err |-> FALSE, fault |-> FALSE, cmdline |-> c] : c \in CmdLines}

\* p.SendSignal(syscall.SIGINT): ESRCH for a missing process
SendSignal(pid) ==
    IF pid \in alive
    THEN {[err |-> FALSE, fault |-> FALSE]} \cup Failing([err |-> TRUE, fault |-> TRUE])
    ELSE {[err |-> TRUE, fault |-> FALSE]}

\* process.PidExists as a call that may fail
PidExistsCall(pid) ==
    {[err |-> FALSE, fault |-> FALSE, exists |-> PidExists(pid)]}
    \cup Failing([err |-> TRUE, fault |-> TRUE, exists |-> FALSE])

\* syscall.Getpgid: ESRCH for a missing process, else the group the OS resolves
Getpgid(pid) ==
    IF pid \in alive
    THEN {[err |-> FALSE, fault |-> FALSE, pgid |-> g] : g \in 0..MaxPgid}
         \cup Failing([err |-> TRUE, fault |-> TRUE, pgid |-> -1])
    ELSE {[err |-> TRUE, fault |-> FALSE, pgid |-> -1]}

\* proc.CreateTime
CreateTime(pid) ==
    IF pid \in alive
    THEN {[err |-> FALSE, fault |-> FALSE]} \cup Failing([err |-> TRUE, fault |-> TRUE])
    ELSE {[err |-> TRUE, fault |-> FALSE]}

\* the pids below pid in the process tree (pid itself excluded)
RECURSIVE Descendants(_)
Descendants(pid) ==
    LET kids == {q \in Pids : q \in alive /\ parentOf[q] = pid}
    IN  kids \cup UNION {Descendants(q) : q \in kids}

\* ------------------------------------------------------------- GetCommand
\* ServiceCommand.clearState: command.Pid = 0 and the pid file is removed
ClearedPid == 0

GcErr(at, flt, n) == [err |-> TRUE, at |-> at, fault |-> flt, pid |-> 0, clears |-> n]
GcOk(pid, n) == [err |-> FALSE, at |-> "", fault |-> FALSE, pid |-> pid, clears |-> n]

\* line 499 with the arguments of strings.Contains exchanged
MismatchArgsSwapped(cmdline) == ~Contains(Name, cmdline)
\* line 499 comparing the whole command line with the service name
MismatchExact(cmdline) == cmdline # Name
\* GetCommand, line 499: the command line does not carry the service name
Mismatch(cmdline) == ~Contains(cmdline, Name)

\* lines 491-502 of GetCommand, entered with command.Pid = pid after n clearState calls
GetCommandValidate(pid, n) ==
    UNION {
        IF np.err THEN {GcErr("NewProcess", np.fault, n)}
        ELSE { IF cl.err THEN GcErr("Cmdline", cl.fault, n)
               ELSE IF Mismatch(cl.cmdline) THEN GcOk(ClearedPid, n + 1)
               ELSE GcOk(pid, n)
               : cl \in Cmdline(pid) }
        : np \in NewProcess(pid) }

\* The outcomes of c.GetCommand() in the current state: the error or the loaded
\* command.Pid, and how many times clearState ran.
\* lines 504-506 with a clearState call added to the no-pidfile branch
GetCommandNoFileClears == {GcOk(0, 1)}
\* GetCommand, lines 504-506: no pid file; command.Pid stays 0, nothing is cleared
GetCommandNoFile == {GcOk(0, 0)}

GetCommand ==
    IF pidFile = NoFile THEN GetCommandNoFile
    ELSE LET a == Atoi(pidFile)
         IN  Failing(GcErr("ReadFile", TRUE, 0))
             \cup IF ~a.ok THEN {GcErr("Atoi", FALSE, 0)}
                  ELSE Failing(GcErr("PidExists", TRUE, 0))
                       \cup IF PidExists(a.val)
                            THEN GetCommandValidate(a.val, 0)
                            ELSE GetCommandValidate(ClearedPid, 1)

\* the pid file after a GetCommand outcome
PidFileAfter(o) == IF o.clears > 0 THEN NoFile ELSE pidFile

\* the persisted identity is stale: recorded pid not alive, or alive without the name
PidFilePid == IF pidFile = NoFile THEN 0 ELSE Atoi(pidFile).val
DeadIdentity == pidFile # NoFile /\ PidFilePid \notin alive
ReusedIdentity ==
    pidFile # NoFile /\ PidFilePid \in alive /\ ~Contains(cmdlineOf[PidFilePid], Name)
ValidIdentity ==
    pidFile # NoFile /\ PidFilePid \in alive /\ Contains(cmdlineOf[PidFilePid], Name)
IdentityKind ==
    IF pidFile = NoFile THEN "absent"
    ELSE IF DeadIdentity THEN "dead"
    ELSE IF ReusedIdentity THEN "reused"
    ELSE "valid"

\* ------------------------------------------------------------------ state
\* no document, nothing loaded
NoJson == [parses |-> FALSE, launch_checks |-> <<>>, log_properties |-> <<>>]
NotLoaded == [state |-> "none"]
NoResult == [status |-> "None", pid |-> 0, ports |-> <<>>]
NoPrev == "other"

\* the socket table and the declared ports of the lifecycle specification
LifecycleTable == <<[status |-> "LISTEN", pid |-> 1, port |-> 80]>>
LifecyclePorts == <<8080>>

IdleLocals ==
    /\ op = "idle" /\ pc = "idle" /\ cmdPid = 0 /\ elapsed = 0 /\ polls = 0
    /\ tracker = <<>> /\ ret = "none" /\ result = NoResult /\ signals = <<>>
    /\ clears = 0 /\ errAt = "" /\ fault = FALSE /\ pgid = -1 /\ calls = <<>>
    /\ stale0 = "absent" /\ loadedPid = -1

Init ==
    /\ parentOf = [p \in 1..MaxPid |-> 0]
    /\ alive = {}
    /\ cmdlineOf = [p \in 1..MaxPid |-> <<>>]
    /\ connTable = LifecycleTable
    /\ osFaulty = TRUE
    /\ walkFails = {}
    /\ fetches = 0
    /\ cfgIn = NoJson
    /\ cfgOut = NotLoaded
    /\ launchPorts = LifecyclePorts
    /\ pidFile = NoFile
    /\ connectionsCache = <<>>
    /\ prev = NoPrev
    /\ IdleLocals

\* ------------------------------------------------------------ environment
\* a live process exits (on its own, or in response to a signal it was sent)
ProcExit(p) ==
    /\ p \in alive
    /\ alive' = alive \ {p}
    /\ cmdlineOf' = [cmdlineOf EXCEPT ![p] = <<>>]
    /\ parentOf' = [q \in Pids |-> IF q = p \/ parentOf[q] = p THEN 0 ELSE parentOf[q]]
    /\ UNCHANGED <<connTable, osFaulty, walkFails, fetches, cfgIn, cfgOut, pidFile, launchPorts, connectionsCache, prev>>
    /\ UNCHANGED opVars

\* the OS gives a free pid to an unrelated process (pid reuse when the pid is on file)
ProcSpawn(p, cl) ==
    /\ p \in Pids \ alive
    /\ alive' = alive \cup {p}
    /\ cmdlineOf' = [cmdlineOf EXCEPT ![p] = cl]
    /\ UNCHANGED <<parentOf, connTable, osFaulty, walkFails, fetches, cfgIn, cfgOut, pidFile, launchPorts, connectionsCache, prev>>
    /\ UNCHANGED opVars

\* -------------------------------------------------------- ending an operation
\* the operation returns retv with tracker calls tr (appended) after n more clearState calls
Finish(retv, tr, n, at, flt) ==
    /\ pc' = "done"
    /\ ret' = retv
    /\ tracker' = tracker \o tr
    /\ clears' = clears + n
    /\ errAt' = at
    /\ fault' = flt

\* the caller takes the result; the service is idle again
Return ==
    /\ pc = "done"
    /\ prev' = IF op = "status" /\ stale0 \in {"dead", "reused"} /\ ~fault
               THEN "staleStatus" ELSE "other"
    /\ op' = "idle" /\ pc' = "idle" /\ cmdPid' = 0 /\ elapsed' = 0 /\ polls' = 0
    /\ tracker' = <<>> /\ ret' = "none" /\ result' = NoResult /\ signals' = <<>>
    /\ clears' = 0 /\ errAt' = "" /\ fault' = FALSE /\ pgid' = -1 /\ calls' = <<>>
    /\ stale0' = "absent" /\ loadedPid' = -1
    /\ UNCHANGED <<alive, cmdlineOf, parentOf, connTable, osFaulty, walkFails, fetches, cfgIn, cfgOut, pidFile, launchPorts,
                   connectionsCache>>

\* ------------------------------------------------------------------- Stop
\* tracker.Fail(err) without the return that follows it
FailStepNoReturn(at, flt) ==
    /\ tracker' = tracker \o <<"Fail">>
    /\ errAt' = at
    /\ fault' = flt
    /\ UNCHANGED <<pc, ret, clears>>

\* tracker.Fail(err) followed by return err
FailStepReturnsErr(at, flt) == Finish("err", <<"Fail">>, 0, at, flt)

\* Stop, lines 248-251, 256-259, 262-265 and 270-271: tracker.Fail(err); return nil
FailStep(at, flt) == Finish("nil", <<"Fail">>, 0, at, flt)

\* line 314 with elapsed < timeout
LoopConditionStrict(e) == e < TimeoutMs
\* line 314 without a ceiling
LoopConditionNoCeiling(e) == TRUE
\* waitForTerm, line 314: elapsed <= timeout
LoopCondition(e) == e <= TimeoutMs

\* line 242 with the pid 0 test dropped
NotRunningNever(pid) == FALSE
\* Stop, line 242: command.Pid == 0
NotRunning(pid) == pid = 0

\* Stop, lines 225-245: exclusion, tracker.Start, GetCommand, the pid 0 case
StopBegin(excluded) ==
    /\ op = "idle"
    /\ op' = "stop"
    /\ stale0' = IdentityKind
    /\ IF excluded
       THEN /\ Finish("nil", <<>>, 0, "", FALSE)
            /\ UNCHANGED <<pidFile, cmdPid, loadedPid>>
       ELSE \E o \in GetCommand :
              /\ pidFile' = PidFileAfter(o)
              /\ loadedPid' = IF o.err THEN -1 ELSE o.pid
              /\ IF o.err
                 THEN Finish("err", <<"Start">>, o.clears, o.at, o.fault)
                      /\ UNCHANGED cmdPid
                 ELSE IF NotRunning(o.pid)
                 THEN Finish("nil", <<"Start", "SoftFail: Not running">>, o.clears, "", FALSE)
                      /\ UNCHANGED cmdPid
                 ELSE /\ pc' = "interrupt"
                      /\ cmdPid' = o.pid
                      /\ tracker' = <<"Start">>
                      /\ clears' = o.clears
                      /\ UNCHANGED <<ret, errAt, fault>>
    /\ UNCHANGED <<alive, cmdlineOf, parentOf, connTable, osFaulty, walkFails, fetches, cfgIn, cfgOut, launchPorts, connectionsCache,
                   prev, elapsed, polls, result, signals, pgid, calls>>

\* interruptProcess, lines 282-289: NewProcess, then SIGINT to the recorded pid
StopInterrupt ==
    /\ op = "stop" /\ pc = "interrupt"
    /\ \E np \in NewProcess(cmdPid) :
         IF np.err
         THEN FailStep("NewProcess", np.fault) /\ UNCHANGED signals
         ELSE \E ss \in SendSignal(cmdPid) :
                IF ss.err
                THEN FailStep("SendSignal", ss.fault)
                     /\ UNCHANGED signals
                ELSE /\ signals' = Append(signals, [sig |-> "INT", to |-> "pid", id |-> cmdPid])
                     /\ pc' = "recheck"
                     /\ UNCHANGED <<ret, tracker, clears, errAt, fault>>
    /\ UNCHANGED <<alive, cmdlineOf, parentOf, connTable, osFaulty, walkFails, fetches, cfgIn, cfgOut, pidFile, launchPorts,
                   connectionsCache, prev, op, cmdPid, elapsed, polls, result, pgid,
                   calls, stale0, loadedPid>>

\* lines 275-278 without the clearState call
StopSucceedLeavesPidFile ==
    /\ Finish("nil", <<"Success">>, 0, "", FALSE)
    /\ UNCHANGED <<pidFile, cmdPid>>

\* Stop, lines 275-278: command.clearState(), tracker.Success()
StopSucceed ==
    /\ Finish("nil", <<"Success">>, 1, "", FALSE)
    /\ pidFile' = NoFile
    /\ cmdPid' = ClearedPid

\* interruptProcess, lines 291-296: the immediate liveness re-check
StopRecheck ==
    /\ op = "stop" /\ pc = "recheck"
    /\ \E pe \in PidExistsCall(cmdPid) :
         IF pe.err
         THEN FailStep("PidExists", pe.fault)
              /\ UNCHANGED <<pidFile, cmdPid>>
         ELSE IF ~pe.exists
         THEN StopSucceed
         ELSE /\ pc' = "wait"
              /\ UNCHANGED <<ret, tracker, clears, errAt, fault, pidFile, cmdPid>>
    /\ UNCHANGED <<alive, cmdlineOf, parentOf, connTable, osFaulty, walkFails, fetches, cfgIn, cfgOut, launchPorts, connectionsCache,
                   prev, op, elapsed, polls, result, signals, pgid, calls, stale0, loadedPid>>

\* waitForTerm, lines 313-325: one iteration of the poll loop
StopWait ==
    /\ op = "stop" /\ pc = "wait"
    /\ LoopCondition(elapsed)
    /\ polls' = polls + 1
    /\ \E pe \in PidExistsCall(cmdPid) :
         IF pe.err
         THEN FailStep("PidExists poll", pe.fault)
              /\ UNCHANGED <<pidFile, cmdPid, elapsed>>
         ELSE IF ~pe.exists
         THEN StopSucceed /\ UNCHANGED elapsed
         ELSE /\ elapsed' = elapsed + IntervalMs
              /\ pc' = IF LoopCondition(elapsed + IntervalMs) THEN "wait" ELSE "kill"
              /\ UNCHANGED <<ret, tracker, clears, errAt, fault, pidFile, cmdPid>>
    /\ UNCHANGED <<alive, cmdlineOf, parentOf, connTable, osFaulty, walkFails, fetches, cfgIn, cfgOut, launchPorts, connectionsCache,
                   prev, op, result, signals, pgid, calls, stale0, loadedPid>>

\* KillGroup(cfg, pgid, c): SIGKILL to the process group; the command may fail.
\* The signal is delivered asynchronously: when KillGroup has returned, the
\* processes of the group are gone already or exit later (ProcExit).
KillGroup(g) ==
    {[err |-> FALSE, fault |-> FALSE]} \cup Failing([err |-> TRUE, fault |-> TRUE])

\* line 305 testing group 0 only
SuspectPgidZeroOnly(g) == g = 0
\* killProcess, line 305: the group ids killProcess refuses to signal
SuspectPgid(g) == g = 0 \/ g = 1

\* line 309 killing the recorded pid instead of its group
KillSignalToPid(pid, g) == [sig |-> "KILL", to |-> "pid", id |-> pid]
\* killProcess, line 309: the force-kill goes to the process group
KillSignal(pid, g) == [sig |-> "KILL", to |-> "group", id |-> g]

\* killProcess, lines 299-311, and Stop's handling of its result, lines 261-271
StopKill ==
    /\ op = "stop" /\ pc = "kill"
    /\ \E gp \in Getpgid(cmdPid) :
         IF gp.err
         THEN /\ FailStep("Getpgid", gp.fault)
              /\ UNCHANGED <<signals, pgid, alive, cmdlineOf, parentOf>>
         ELSE /\ pgid' = gp.pgid
              /\ IF SuspectPgid(gp.pgid)
                 THEN /\ FailStep("suspect pgid", FALSE)
                      /\ UNCHANGED <<signals, alive, cmdlineOf, parentOf>>
                 ELSE \E kg \in KillGroup(gp.pgid) :
                        IF kg.err
                        THEN /\ FailStep("KillGroup", kg.fault)
                             /\ UNCHANGED <<signals, alive, cmdlineOf, parentOf>>
                        ELSE /\ signals' = Append(signals, KillSignal(cmdPid, gp.pgid))
                             /\ \E dead \in {{cmdPid} \cup Descendants(cmdPid), {}} :
                                    /\ alive' = alive \ dead
                                    /\ cmdlineOf' = [q \in Pids |->
                                           IF q \in dead THEN <<>> ELSE cmdlineOf[q]]
                                    /\ parentOf' = [q \in Pids |->
                                           IF q \in dead \/ parentOf[q] \in dead
                                           THEN 0 ELSE parentOf[q]]
                             /\ Finish("nil", <<"SoftFail: Killed">>, 0, "", FALSE)
    /\ UNCHANGED <<connTable, osFaulty, walkFails, fetches, cfgIn, cfgOut, pidFile, launchPorts, connectionsCache, prev, op, cmdPid,
                   elapsed, polls, result, calls, stale0, loadedPid>>

Stop == (\E e \in BOOLEAN : StopBegin(e)) \/ StopInterrupt \/ StopRecheck \/ StopWait
        \/ StopKill

\* ------------------------------------------------------- port discovery
\* the members of a set of numbers, in ascending order
RECURSIVE Ascending(_)
Ascending(S) ==
    IF S = {} THEN <<>>
    ELSE LET m == CHOOSE x \in S : \A y \in S : x <= y
         IN  <<m>> \o Ascending(S \ {m})

\* proc.Children() returns an error: the process has finished, has no children,
\* or the enumeration itself fails
ChildrenErr(p) ==
    \/ p \notin alive
    \/ p \in walkFails
    \/ ~\E q \in Pids : q \in alive /\ parentOf[q] = p

\* proc.Children(): the live children; on an error doGetPorts goes on without
\* children (lines 430-433), here <<>>
Children(p) ==
    IF ChildrenErr(p) THEN <<>>
    ELSE Ascending({q \in Pids : q \in alive /\ parentOf[q] = p})

\* doGetPorts, lines 414-427: the LISTEN entries of cache owned by p whose port
\* is not a declared one, in table order, as decimal text
RECURSIVE OwnPorts(_, _, _)
OwnPorts(p, cache, known) ==
    IF cache = <<>> THEN <<>>
    ELSE LET connection == Head(cache)
             rest == OwnPorts(p, Tail(cache), known)
         IN  IF connection.status = "LISTEN"
                /\ connection.pid = p /\ connection.port \notin known
             THEN <<Itoa(connection.port)>> \o rest
             ELSE rest

\* the set LaunchChecks.Ports is copied into (knownPorts)
KnownPorts == {launchPorts[i] : i \in 1..Len(launchPorts)}

\* doGetPorts, lines 405-441, on a filled cache: own ports, then each child's
RECURSIVE doGetPorts(_, _)
RECURSIVE ChildPorts(_, _)
\* lines 434-439 leaving the loop after the first child
ChildPortsFirstOnly(children, cache) ==
    IF children = <<>> THEN <<>> ELSE doGetPorts(Head(children), cache)

\* doGetPorts, lines 434-439: the ports of every child, in order
ChildPorts(children, cache) ==
    IF children = <<>> THEN <<>>
    ELSE doGetPorts(Head(children), cache) \o ChildPorts(Tail(children), cache)

\* lines 430-433 returning no ports when proc.Children() fails
doGetPortsDropsOnError(p, cache) ==
    IF ChildrenErr(p) THEN <<>>
    ELSE OwnPorts(p, cache, KnownPorts) \o ChildPorts(Children(p), cache)

doGetPorts(p, cache) == OwnPorts(p, cache, KnownPorts) \o ChildPorts(Children(p), cache)

\* strconv.Itoa over LaunchChecks.Ports
RECURSIVE ItoaAll(_)
ItoaAll(ports) ==
    IF ports = <<>> THEN <<>> ELSE <<Itoa(Head(ports))>> \o ItoaAll(Tail(ports))

\* getPorts, lines 366-377: the discovered ports, then the declared ones
getPorts(p, cache) == doGetPorts(p, cache) \o ItoaAll(launchPorts)

\* calls of doGetPorts in the walk that starts at p
RECURSIVE WalkCalls(_)
RECURSIVE ChildCalls(_)
ChildCalls(children) ==
    IF children = <<>> THEN 0
    ELSE WalkCalls(Head(children)) + ChildCalls(Tail(children))

WalkCalls(p) == 1 + ChildCalls(Children(p))

\* doGetPorts, lines 408-412: the calls of the walk from root that fetch the
\* table: none on a filled cache, the first one when the table it fetches has
\* entries, every one when the table is empty (len(connectionsCache) == 0 again)
Fetched(cache, table, root) ==
    IF Len(cache) # 0 THEN 0
    ELSE IF Len(table) # 0 THEN 1
    ELSE WalkCalls(root)

Min(a, b) == IF a <= b THEN a ELSE b

\* net.Connections("all")
Connections ==
    {[err |-> FALSE, fault |-> FALSE, table |-> connTable]}
    \cup Failing([err |-> TRUE, fault |-> TRUE, table |-> <<>>])

\* ----------------------------------------------------------------- Status
\* Status, lines 328-339: GetCommand and the stopped case
StatusBegin ==
    /\ op = "idle"
    /\ op' = "status"
    /\ stale0' = IdentityKind
    /\ \E o \in GetCommand :
         /\ pidFile' = PidFileAfter(o)
         /\ loadedPid' = IF o.err THEN -1 ELSE o.pid
         /\ IF o.err
            THEN Finish("err", <<>>, o.clears, o.at, o.fault)
                 /\ UNCHANGED <<cmdPid, result>>
            ELSE IF o.pid = 0
            THEN /\ Finish("nil", <<>>, o.clears, "", FALSE)
                 /\ result' = [status |-> "Stopped", pid |-> 0, ports |-> <<>>]
                 /\ UNCHANGED cmdPid
            ELSE /\ pc' = "status"
                 /\ cmdPid' = o.pid
                 /\ clears' = o.clears
                 /\ UNCHANGED <<ret, tracker, errAt, fault, result>>
    /\ UNCHANGED <<alive, cmdlineOf, parentOf, connTable, osFaulty, walkFails, fetches, cfgIn, cfgOut, launchPorts, connectionsCache,
                   prev, elapsed, polls, signals, pgid, calls>>

\* Status, lines 339-360: NewProcess, CreateTime, getPorts (filling the cache when
\* it is empty), the Running entry
StatusRunning ==
    /\ op = "status" /\ pc = "status"
    /\ \E np \in NewProcess(cmdPid) :
         IF np.err
         THEN Finish("err", <<>>, 0, "NewProcess", np.fault)
              /\ UNCHANGED <<result, connectionsCache, fetches>>
         ELSE \E ct \in CreateTime(cmdPid) :
                IF ct.err
                THEN Finish("err", <<>>, 0, "CreateTime", ct.fault)
                     /\ UNCHANGED <<result, connectionsCache, fetches>>
                ELSE \E cn \in (IF Len(connectionsCache) = 0 THEN Connections
                                ELSE {[err |-> FALSE, fault |-> FALSE,
                                       table |-> connectionsCache]}) :
                       IF cn.err
                       THEN Finish("err", <<>>, 0, "Connections", cn.fault)
                            /\ UNCHANGED <<result, connectionsCache, fetches>>
                       ELSE /\ connectionsCache' = cn.table
                            /\ fetches' = Min(FetchCap, fetches
                                    + Fetched(connectionsCache, cn.table, cmdPid))
                            /\ result' = [status |-> "Running", pid |-> cmdPid,
                                          ports |-> getPorts(cmdPid, cn.table)]
                            /\ Finish("nil", <<>>, 0, "", FALSE)
    /\ UNCHANGED <<alive, cmdlineOf, parentOf, connTable, osFaulty, walkFails, cfgIn, cfgOut,
                   pidFile, launchPorts, prev,
                   op, cmdPid, elapsed, polls, signals, pgid, calls, stale0, loadedPid>>

Status == StatusBegin \/ StatusRunning

\* --------------------------------------------------- Build, Launch, Start
\* command.BuildSync(false): the build command succeeds or fails
BuildSync == {"ok", "err"}

\* command.StartAsync(cfg): nothing to do when the service is already running;
\* else the launch fails before spawning, or spawns a detached process whose
\* command line carries the service name and records its pid, and then the
\* launch check passes or times out (the process is left running)
StartAsync(pid) ==
    IF pid # 0 THEN {[err |-> FALSE, spawn |-> 0, cmdline |-> <<>>]}
    ELSE {[err |-> TRUE, spawn |-> 0, cmdline |-> <<>>]}
         \cup {[err |-> e, spawn |-> p, cmdline |-> cl] :
                 e \in BOOLEAN, p \in Pids \ alive,
                 cl \in {c \in CmdLines : Contains(c, Name)}}

\* Start, lines 211-214 (and the same test of Build and Launch called directly)
OpBegin(kind, excluded) ==
    /\ op = "idle"
    /\ kind \in {"start", "build", "launch"}
    /\ op' = kind
    /\ stale0' = IdentityKind
    /\ IF excluded
       THEN Finish("nil", <<>>, 0, "", FALSE)
       ELSE /\ pc' = IF kind = "launch" THEN "launch" ELSE "build"
            /\ UNCHANGED <<ret, tracker, clears, errAt, fault>>
    /\ UNCHANGED <<alive, cmdlineOf, parentOf, connTable, osFaulty, walkFails, fetches, cfgIn, cfgOut, pidFile, launchPorts,
                   connectionsCache, prev, cmdPid, elapsed, polls, result, signals,
                   pgid, calls, loadedPid>>

\* line 217 with Build's error ignored
BuildFailedIgnored(b) == FALSE
\* Start, line 217: Build's error ends Start
BuildFailed(b) == b = "err"

\* Build, lines 185-195; in Start, line 216-220: Launch follows only a nil error
Build ==
    /\ op \in {"start", "build"} /\ pc = "build"
    /\ \E o \in GetCommand :
         /\ pidFile' = PidFileAfter(o)
         /\ loadedPid' = IF o.err THEN -1 ELSE o.pid
         /\ IF o.err
            THEN /\ calls' = Append(calls, [fn |-> "Build", ret |-> "err"])
                 /\ Finish("err", <<>>, o.clears, o.at, o.fault)
            ELSE \E b \in BuildSync :
                   /\ calls' = Append(calls, [fn |-> "Build", ret |-> b])
                   /\ IF BuildFailed(b)
                      THEN Finish("err", <<>>, o.clears, "BuildSync", FALSE)
                      ELSE IF op = "build"
                      THEN Finish("nil", <<>>, o.clears, "", FALSE)
                      ELSE /\ pc' = "launch"
                           /\ clears' = clears + o.clears
                           /\ UNCHANGED <<ret, tracker, errAt, fault>>
    /\ UNCHANGED <<alive, cmdlineOf, parentOf, connTable, osFaulty, walkFails, fetches, cfgIn, cfgOut, launchPorts, connectionsCache,
                   prev, op, cmdPid, elapsed, polls, result, signals, pgid, stale0>>

\* Launch, lines 198-208
Launch ==
    /\ op \in {"start", "launch"} /\ pc = "launch"
    /\ \E o \in GetCommand :
         /\ loadedPid' = (IF o.err THEN -1 ELSE o.pid)
         /\ IF o.err
            THEN /\ calls' = Append(calls, [fn |-> "Launch", ret |-> "err"])
                 /\ pidFile' = PidFileAfter(o)
                 /\ Finish("err", <<>>, o.clears, o.at, o.fault)
                 /\ UNCHANGED <<alive, cmdlineOf>>
            ELSE \E sa \in StartAsync(o.pid) :
                   /\ calls' = Append(calls,
                          [fn |-> "Launch", ret |-> IF sa.err THEN "err" ELSE "ok"])
                   /\ IF sa.spawn = 0
                      THEN /\ pidFile' = PidFileAfter(o)
                           /\ UNCHANGED <<alive, cmdlineOf>>
                      ELSE /\ pidFile' = Itoa(sa.spawn)
                           /\ alive' = alive \cup {sa.spawn}
                           /\ cmdlineOf' = [cmdlineOf EXCEPT ![sa.spawn] = sa.cmdline]
                   /\ IF sa.err
                      THEN Finish("err", <<>>, o.clears, "StartAsync", FALSE)
                      ELSE Finish("nil", <<>>, o.clears, "", FALSE)
    /\ UNCHANGED <<parentOf, connTable, osFaulty, walkFails, fetches, cfgIn, cfgOut, launchPorts, connectionsCache, prev,
                   op, cmdPid, elapsed, polls, result, signals, pgid, stale0>>

Start == (\E k \in {"start", "build", "launch"}, e \in BOOLEAN : OpBegin(k, e))
         \/ Build \/ Launch

\* ------------------------------------------------------------ specification
Environment ==
    \/ \E p \in Pids : ProcExit(p)
    \/ \E p \in Pids, cl \in CmdLines : ProcSpawn(p, cl)

Next == Stop \/ Status \/ Start \/ Return \/ Environment

Spec == Init /\ [][Next]_vars

\* ------------------------------------------- port-discovery specification
\* The service is running as pid 1 of a process forest; the forest, the socket
\* table and the declared ports are drawn from bounded sets, the OS fails no
\* call, and Status is run.
PortSet == {80, 8080}
ConnEntries == [status : {"LISTEN", "ESTABLISHED"}, pid : 1..MaxTreePid, port : PortSet]
ConnTables == SeqsUpTo(ConnEntries, MaxConns)
DeclaredChoices == {<<>>, <<80>>, <<8080, 80>>}
Forests == {f \in [1..MaxTreePid -> 0..MaxTreePid] : \A p \in 1..MaxTreePid : f[p] < p}

InitPorts ==
    /\ parentOf \in Forests
    /\ alive = 1..MaxTreePid
    /\ cmdlineOf = [p \in 1..MaxTreePid |-> Name]
    /\ connTable \in ConnTables
    /\ osFaulty = FALSE
    /\ walkFails = {}
    /\ fetches = 0
    /\ cfgIn = NoJson
    /\ cfgOut = NotLoaded
    /\ launchPorts \in DeclaredChoices
    /\ pidFile = Itoa(1)
    /\ connectionsCache = <<>>
    /\ prev = NoPrev
    /\ IdleLocals

NextPorts == Status \/ Return

SpecPorts == InitPorts /\ [][NextPorts]_vars

\* ------------------------------------------------- tree-walk specification
\* As the port-discovery specification, with every process listening on a port
\* of its own and proc.Children() failing for the processes of walkFails.
WalkPort(p) == 8000 + p
WalkTable == [p \in 1..MaxTreePid |-> [status |-> "LISTEN", pid |-> p, port |-> WalkPort(p)]]

InitWalk ==
    /\ parentOf \in Forests
    /\ alive = 1..MaxTreePid
    /\ cmdlineOf = [p \in 1..MaxTreePid |-> Name]
    /\ connTable = WalkTable
    /\ osFaulty = FALSE
    /\ walkFails \in SUBSET (1..MaxTreePid)
    /\ fetches = 0
    /\ cfgIn = NoJson
    /\ cfgOut = NotLoaded
    /\ launchPorts \in {<<>>, <<WalkPort(1)>>}
    /\ pidFile = Itoa(1)
    /\ connectionsCache = <<>>
    /\ prev = NoPrev
    /\ IdleLocals

NextWalk == Status \/ Return

SpecWalk == InitWalk /\ [][NextWalk]_vars

\* --------------------------------------------- configuration specification
\* A service's JSON document is drawn from a bounded set and UnmarshalJSON is
\* applied to it. An absent object is <<>>, a present one a one-element sequence.
Texts == {<<>>, <<"u", "p">>, <<"o", "k">>}
PortLists == SeqsUpTo(PortSet, MaxCfgPorts)
JsonDocs ==
    {NoJson} \cup
    [parses : {TRUE},
     launch_checks : {<<>>} \cup {<<lc>> : lc \in [log_text : Texts, ports : PortLists]},
     log_properties : {<<>>} \cup {<<pr>> : pr \in [started : Texts]}]

\* json.Unmarshal(data, &aux), lines 58-66: the fields of the document, or an error
jsonUnmarshal(doc) ==
    IF doc.parses
    THEN [err |-> FALSE, LaunchChecks |-> doc.launch_checks, Properties |-> doc.log_properties]
    ELSE [err |-> TRUE, LaunchChecks |-> <<>>, Properties |-> <<>>]

\* lines 67-75: the legacy field, when present, becomes the log launch check
ApplyLegacy(aux) ==
    IF aux.Properties # <<>>
    THEN IF aux.LaunchChecks # <<>>
         THEN <<[aux.LaunchChecks[1] EXCEPT !.log_text = aux.Properties[1].started]>>
         ELSE <<[log_text |-> aux.Properties[1].started, ports |-> <<>>]>>
    ELSE aux.LaunchChecks

\* line 83 with len(c.LaunchChecks.Ports) > 1
validateOffByOne(LaunchChecks) ==
    /\ LaunchChecks # <<>>
    /\ Len(LaunchChecks[1].log_text) > 0 /\ Len(LaunchChecks[1].ports) > 1

\* validate, lines 81-88: TRUE when it returns an error
validate(LaunchChecks) ==
    /\ LaunchChecks # <<>>
    /\ Len(LaunchChecks[1].log_text) > 0 /\ Len(LaunchChecks[1].ports) > 0

\* UnmarshalJSON, lines 56-78
UnmarshalJSON(doc) ==
    LET aux == jsonUnmarshal(doc)
    IN  IF aux.err THEN [state |-> "err", LaunchChecks |-> <<>>]
        ELSE LET merged == ApplyLegacy(aux)
             IN  [state |-> IF validate(merged) THEN "err" ELSE "ok",
                  LaunchChecks |-> merged]

Unmarshal ==
    /\ cfgOut = NotLoaded
    /\ cfgOut' = UnmarshalJSON(cfgIn)
    /\ UNCHANGED <<alive, cmdlineOf, parentOf, connTable, osFaulty, walkFails, fetches, cfgIn,
                   pidFile, launchPorts, connectionsCache, prev, opVars>>

InitConfig ==
    /\ parentOf = [p \in 1..MaxPid |-> 0]
    /\ alive = {}
    /\ cmdlineOf = [p \in 1..MaxPid |-> <<>>]
    /\ connTable = LifecycleTable
    /\ osFaulty = FALSE
    /\ walkFails = {}
    /\ fetches = 0
    /\ cfgIn \in JsonDocs
    /\ cfgOut = NotLoaded
    /\ launchPorts = LifecyclePorts
    /\ pidFile = NoFile
    /\ connectionsCache = <<>>
    /\ prev = NoPrev
    /\ IdleLocals

NextConfig == Unmarshal

SpecConfig == InitConfig /\ [][NextConfig]_vars

\* ----------------------------------------------------------------- claims
LastTracker == IF tracker = <<>> THEN "" ELSE tracker[Len(tracker)]
Interrupt(pid) == [sig |-> "INT", to |-> "pid", id |-> pid]
\* a Stop or Status that went past the exclusion test
Acting == op = "status" \/ (op = "stop" /\ tracker # <<>>)
\* liveness checks of a full grace period
FullGracePolls == (TimeoutMs \div IntervalMs) + 1

\* C1: a Stop whose GetCommand loaded pid 0 is over at once: it reports the soft
\* outcome "Not running", returns nil and has sent no signal.
C1_StopNotRunning ==
    (op = "stop" /\ loadedPid = 0) =>
        /\ pc = "done"
        /\ ret = "nil"
        /\ tracker = <<"Start", "SoftFail: Not running">>
        /\ signals = <<>>

C1_Witness ==
    op = "stop" /\ pc = "done" /\ loadedPid = 0 /\ stale0 = "absent" /\ signals = <<>>

\* C2: when the interrupted process is gone at the immediate re-check or at a
\* poll of the grace period, and the check itself does not fail, that step ends
\* Stop with Success, with exactly the one interrupt sent, no force-kill, nil
\* returned and the pid file removed.
C2_InterruptResponsive ==
    [][ ( /\ op = "stop" /\ pc \in {"recheck", "wait"}
          /\ cmdPid \notin alive
          /\ (pc' # pc \/ polls' # polls)
          /\ ~fault' )
        => ( /\ pc' = "done"
             /\ ret' = "nil"
             /\ tracker' = <<"Start", "Success">>
             /\ signals' = <<Interrupt(cmdPid)>>
             /\ pidFile' = NoFile ) ]_vars

C2_Witness ==
    /\ op = "stop" /\ pc = "done" /\ tracker = <<"Start", "Success">>
    /\ polls >= 2 /\ Len(signals) = 1 /\ pidFile = NoFile

\* C3: a Stop that resolved a process-group id other than 0 and 1 and met no OS
\* failure made every liveness check of the grace period, sent one interrupt to
\* the pid and then one force-kill to that group, and reports "Killed".
C3_KilledByGroup ==
    (op = "stop" /\ pc = "done" /\ pgid > 1 /\ ~fault) =>
        /\ polls = FullGracePolls
        /\ signals = <<Interrupt(cmdPid), [sig |-> "KILL", to |-> "group", id |-> pgid]>>
        /\ tracker = <<"Start", "SoftFail: Killed">>
        /\ ret = "nil"

C3_Witness ==
    /\ op = "stop" /\ pc = "done" /\ pgid > 1 /\ ~fault
    /\ LastTracker = "SoftFail: Killed" /\ polls = FullGracePolls

\* C4: no force-kill ever goes to group 0 or 1, and a Stop that resolved group 0
\* or 1 is over with a hard failure, having sent nothing but the interrupt.
C4_NeverKillSuspectGroup ==
    /\ \A i \in 1..Len(signals) :
         signals[i].sig = "KILL" => (signals[i].to = "group" /\ signals[i].id \notin {0, 1})
    /\ (op = "stop" /\ pgid \in {0, 1}) =>
         /\ pc = "done"
         /\ LastTracker = "Fail"
         /\ errAt = "suspect pgid"
         /\ signals = <<Interrupt(cmdPid)>>

C4_Witness ==
    op = "stop" /\ pc = "done" /\ pgid = 1 /\ polls = FullGracePolls /\ cmdPid \in alive

\* C5: when Stop ends with Success or "Killed", the pid file is gone.
C5_TerminalOutcomeClearsState ==
    (op = "stop" /\ pc = "done" /\ LastTracker \in {"Success", "SoftFail: Killed"}) =>
        pidFile = NoFile

\* C6: Status or Stop on an identity whose pid is not a live process, with no OS
\* failure, returns nil with the pid file removed: Status reports Stopped, Stop
\* reports "Not running".
C6_DeadIdentityRecoversSilently ==
    (Acting /\ pc = "done" /\ stale0 = "dead" /\ ~fault) =>
        /\ ret = "nil"
        /\ pidFile = NoFile
        /\ (op = "status" => result.status = "Stopped")
        /\ (op = "stop" => tracker = <<"Start", "SoftFail: Not running">>)

\* C7: Status or Stop on an identity whose pid belongs to a live process without
\* the service name sends no signal; with no OS failure it returns nil with the
\* pid file removed, Status reporting Stopped and Stop "Not running".
C7_ReusedPidNotTouched ==
    /\ (op \in {"status", "stop"} /\ stale0 = "reused") => signals = <<>>
    /\ (Acting /\ pc = "done" /\ stale0 = "reused" /\ ~fault) =>
         /\ ret = "nil"
         /\ pidFile = NoFile
         /\ (op = "status" => result.status = "Stopped")
         /\ (op = "stop" => tracker = <<"Start", "SoftFail: Not running">>)

C7_Witness ==
    /\ op = "stop" /\ pc = "done" /\ stale0 = "reused" /\ ~fault /\ tracker # <<>>
    /\ pidFile = NoFile /\ alive # {}

\* C8: a Status that follows a Status on a stale identity (which met no OS
\* failure), with no operation between them, finds no pid file, returns Stopped
\* and calls clearState not once.
C8_StatusIdempotent ==
    (op = "status" /\ prev = "staleStatus") =>
        /\ pc = "done"
        /\ stale0 = "absent"
        /\ ret = "nil"
        /\ result.status = "Stopped"
        /\ clears = 0
        /\ pidFile = NoFile

C8_Witness ==
    op = "status" /\ pc = "done" /\ prev = "staleStatus" /\ result.status = "Stopped"

\* C9: Start calls Build first and Launch only after Build returned nil; a failed
\* Build is the only call and its failure is what Start returns; Start returns
\* what its last call returned.
C9_BuildThenLaunch ==
    op = "start" =>
        /\ Len(calls) <= 2
        /\ (Len(calls) >= 1 => calls[1].fn = "Build")
        /\ (Len(calls) = 2 => (calls[1].ret = "ok" /\ calls[2].fn = "Launch"))
        /\ (pc = "launch" => calls = <<[fn |-> "Build", ret |-> "ok"]>>)
        /\ (pc = "done" /\ Len(calls) >= 1) =>
              ret = (IF calls[Len(calls)].ret = "ok" THEN "nil" ELSE "err")

C9_Witness ==
    op = "start" /\ pc = "done" /\ calls = <<[fn |-> "Build", ret |-> "err"]>> /\ ret = "err"

\* the entries of a sequence
Range(q) == {q[i] : i \in 1..Len(q)}
NoDuplicates(q) == \A i, j \in 1..Len(q) : q[i] = q[j] => i = j
\* the LISTEN ports of pid p and the processes below it
TreePorts(p) ==
    {c.port : c \in {d \in Range(connTable) :
                        d.status = "LISTEN" /\ d.pid \in ({p} \cup Descendants(p))}}

\* C10: the port list of a Running status holds exactly the declared ports and
\* the LISTEN ports of the process tree, each once.
C10_PortsUnionNoDuplicates ==
    (op = "status" /\ pc = "done" /\ result.status = "Running") =>
        /\ Range(result.ports) = {Itoa(n) : n \in KnownPorts \cup TreePorts(result.pid)}
        /\ NoDuplicates(result.ports)

\* what doGetPorts returned to getPorts: the list without the declared ports
\* that getPorts appended
Discovered == SubSeq(result.ports, 1, Len(result.ports) - Len(launchPorts))

\* C11: the ports discovered for the root are, as a set, the LISTEN ports of the
\* root and of every process below it, without the declared ports.
C11_DiscoveredPortsOfTree ==
    (op = "status" /\ pc = "done" /\ result.status = "Running") =>
        Range(Discovered) = {Itoa(n) : n \in TreePorts(result.pid) \ KnownPorts}

\* a root without sockets and two listening children, one on a declared port
C11_Witness ==
    /\ op = "status" /\ pc = "done" /\ result.status = "Running" /\ result.pid = 1
    /\ parentOf[2] = 1 /\ parentOf[3] = 1
    /\ connTable = <<[status |-> "LISTEN", pid |-> 2, port |-> 80],
                     [status |-> "LISTEN", pid |-> 3, port |-> 8080]>>
    /\ launchPorts = <<80>>
    /\ Discovered = <<Itoa(8080)>>

\* C12: the connection table is fetched from the OS at most once in a run.
C12_ConnectionsFetchedOnce == fetches <= 1

\* C13: a configuration that loaded has at most one launch check, and a
\* document that gives both a log text and ports is rejected, whether the log
\* text is launch_checks.log_text or the legacy log_properties.started.
C13_OneLaunchCheck ==
    /\ cfgOut.state = "ok" =>
         \/ cfgOut.LaunchChecks = <<>>
         \/ cfgOut.LaunchChecks[1].log_text = <<>>
         \/ cfgOut.LaunchChecks[1].ports = <<>>
    /\ (/\ cfgOut.state # "none" /\ cfgIn.launch_checks # <<>>
        /\ cfgIn.launch_checks[1].ports # <<>>
        /\ \/ /\ cfgIn.log_properties # <<>>
              /\ cfgIn.log_properties[1].started # <<>>
           \/ /\ cfgIn.log_properties = <<>>
              /\ cfgIn.launch_checks[1].log_text # <<>>)
       => cfgOut.state = "err"

\* the legacy started text with one declared port, rejected
C13_Witness ==
    /\ cfgOut.state = "err" /\ cfgIn.parses
    /\ cfgIn.log_properties = <<[started |-> <<"u", "p">>]>>
    /\ cfgIn.launch_checks = <<[log_text |-> <<>>, ports |-> <<80>>]>>

\* C14: an error of an OS call in Stop's escalation ends the Stop there, as a
\* hard failure: nothing is sent when NewProcess or SendSignal fails, nothing is
\* polled when the immediate re-check fails, and no force-kill is sent when a
\* poll or the group id resolution (or the kill command itself) fails.
C14_ErrorAbortsEscalation ==
    (op = "stop" /\ loadedPid > 0 /\ errAt # "") =>
        /\ pc = "done"
        /\ LastTracker = "Fail"
        /\ \A i \in 1..Len(signals) : signals[i].sig # "KILL"
        /\ errAt \in {"NewProcess", "SendSignal"} => (signals = <<>> /\ polls = 0)
        /\ errAt = "PidExists" => (signals = <<Interrupt(loadedPid)>> /\ polls = 0)
        /\ errAt = "PidExists poll" =>
               (signals = <<Interrupt(loadedPid)>> /\ polls \in 1..FullGracePolls)
        /\ errAt \in {"Getpgid", "suspect pgid", "KillGroup"} =>
               (signals = <<Interrupt(loadedPid)>> /\ polls = FullGracePolls)

\* a liveness poll in the middle of the grace period fails
C14_Witness ==
    /\ op = "stop" /\ pc = "done" /\ loadedPid > 0
    /\ errAt = "PidExists poll" /\ fault /\ polls = 3
    /\ LastTracker = "Fail" /\ signals = <<Interrupt(loadedPid)>>

\* the positions a Stop passes through, in the order of the code
StopOrder ==
    {<<"interrupt", "recheck">>, <<"interrupt", "done">>, <<"recheck", "wait">>,
     <<"recheck", "done">>, <<"wait", "wait">>, <<"wait", "kill">>, <<"wait", "done">>,
     <<"kill", "done">>}
SentKill == \E i \in 1..Len(signals) : signals[i].sig = "KILL"

C15_Order ==
    op = "stop" =>
        /\ Len(signals) <= 2
        /\ \A i \in 1..Len(signals) :
             signals[i].sig = (IF i = 1 THEN "INT" ELSE "KILL")
        /\ pc = "interrupt" => signals = <<>>
        /\ pc \in {"recheck", "wait", "kill"} => signals = <<Interrupt(cmdPid)>>
        /\ pc = "recheck" => polls = 0
        /\ pc = "wait" => polls < FullGracePolls
        /\ (pc = "kill" \/ SentKill) => polls = FullGracePolls

C15_Step ==
    (op = "stop" /\ op' = "stop") =>
        /\ pc' # pc => <<pc, pc'>> \in StopOrder
        /\ (pc = "recheck" /\ pc' = "wait") => cmdPid \in alive
        /\ polls' # polls => (pc = "wait" /\ polls' = polls + 1)
        /\ (polls' # polls /\ pc' \in {"wait", "kill"}) => cmdPid \in alive
        /\ signals' # signals =>
               \/ pc = "interrupt" /\ pc' = "recheck"
               \/ pc = "kill" /\ pc' = "done"

\* C15: a Stop goes interrupt -> re-check -> grace-period polls -> force-kill ->
\* outcome, leaving the sequence only for an outcome; it sends at most one
\* interrupt and at most one force-kill, and the force-kill only after the
\* interrupt, a re-check that found the process alive, and a full grace period
\* of polls that each found it alive.
C15_EscalationOrder == []C15_Order /\ [][C15_Step]_vars

C15_Witness ==
    /\ op = "stop" /\ pc = "done" /\ ret = "nil"
    /\ Len(signals) = 2 /\ signals[1] = Interrupt(loadedPid) /\ signals[2].sig = "KILL"
    /\ polls = FullGracePolls

C16_Bounded ==
    op = "stop" =>
        /\ polls <= 51 /\ FullGracePolls = 51
        /\ pc = "wait" =>
             /\ elapsed = polls * IntervalMs /\ elapsed <= TimeoutMs
             /\ ENABLED StopWait

C16_Poll ==
    (op = "stop" /\ pc = "wait" /\ polls' # polls) =>
        /\ polls' = polls + 1
        /\ (cmdPid \notin alive /\ errAt' = "") =>
               (pc' = "done" /\ LastTracker' = "Success")
        /\ pc' = "wait" => (polls' < FullGracePolls /\ cmdPid \in alive)
        /\ pc' = "kill" => (polls' = FullGracePolls /\ cmdPid \in alive)

\* C16: the graceful-stop wait makes at most 5000/100 + 1 = 51 liveness checks,
\* each of its steps being one more check; the first check that finds the
\* process gone ends it as stopped, only the 51st check finding the process
\* alive ends it as not stopped, and while it waits its next check can always
\* be made, so the wait ends after at most 51 steps.
C16_WaitIsBoundedPoll == []C16_Bounded /\ [][C16_Poll]_vars

\* the process is gone at the last check of the grace period
C16_Witness ==
    /\ op = "stop" /\ pc = "done" /\ LastTracker = "Success"
    /\ polls = FullGracePolls /\ elapsed = TimeoutMs /\ ~SentKill

\* C17: Stop reports "Killed" only for a process that a liveness check after
\* the force-kill found gone: at the step that reports "Killed" the process
\* does not exist any more.
C17_KilledIsConfirmed ==
    [][(op = "stop" /\ pc = "kill" /\ pc' = "done" /\ LastTracker' = "SoftFail: Killed")
           => cmdPid \notin alive']_vars

\* q is root, or hangs below root on a path of processes whose children
\* could all be enumerated
RECURSIVE Walked(_, _)
Walked(q, root) ==
    \/ q = root
    \/ /\ parentOf[q] # 0 /\ parentOf[q] \notin walkFails
       /\ Walked(parentOf[q], root)

\* C18: a proc.Children() failure anywhere in the tree never makes port
\* discovery fail: Status still returns the Running entry, with the ports of
\* every process the walk reached, the failing ones and their siblings included,
\* and nothing from below a failing process.
C18_ChildrenFailureSwallowed ==
    (op = "status" /\ pc = "done") =>
        /\ ret = "nil" /\ errAt = "" /\ result.status = "Running"
        /\ Range(Discovered) =
             {Itoa(connTable[i].port) : i \in {j \in DOMAIN connTable :
                 /\ connTable[j].status = "LISTEN"
                 /\ connTable[j].pid \in alive
                 /\ Walked(connTable[j].pid, result.pid)
                 /\ connTable[j].port \notin KnownPorts}}

\* the chain 1 - 2 - 3 with the enumeration of 2's children failing
C18_Witness ==
    /\ op = "status" /\ pc = "done" /\ ret = "nil"
    /\ parentOf = <<0, 1, 2>> \o [i \in 1..(Len(parentOf) - 3) |-> 0]
    /\ walkFails = {2} /\ launchPorts = <<>>
    /\ Discovered = <<Itoa(WalkPort(1)), Itoa(WalkPort(2))>>

C19_Frame ==
    (op = "status" /\ stale0 = "valid") =>
        /\ signals = <<>> /\ clears = 0 /\ pidFile # NoFile
        /\ (pc # "done" \/ errAt = "") => loadedPid = PidFilePid
        /\ (pc = "done" /\ errAt = "") =>
             /\ ret = "nil"
             /\ result.status = "Running"
             /\ result.pid = PidFilePid

C19_Step == (op' = "status" /\ stale0' = "valid") => pidFile' = pidFile

\* C19: a Status that finds the persisted pid live with the service name in its
\* command line sends no signal, never calls clearState and leaves the pid file
\* as it was; when no OS call fails on the way it returns the one entry Running
\* with the persisted pid.
C19_StatusReadOnly == []C19_Frame /\ [][C19_Step]_vars

\* the command line carries the name with other words before it
C19_Witness ==
    /\ op = "status" /\ pc = "done" /\ stale0 = "valid" /\ errAt = ""
    /\ result.status = "Running" /\ result.pid = PidFilePid
    /\ result.pid \in alive /\ cmdlineOf[result.pid] = <<"x", "s", "v">>
    /\ result.ports # <<>>

TerminalOutcomes == {"Success", "SoftFail: Not running", "SoftFail: Killed", "Fail"}

C20_Outcome ==
    (op = "stop" /\ loadedPid # -1) =>
        /\ tracker # <<>> /\ tracker[1] = "Start"
        /\ pc # "done" => (tracker = <<"Start">> /\ ret = "none")
        /\ pc = "done" =>
             /\ ret = "nil"
             /\ Len(tracker) = 2 /\ tracker[2] \in TerminalOutcomes

C20_Success ==
    (op = "stop" /\ LastTracker # "Success" /\ LastTracker' = "Success") =>
        (cmdPid \notin alive /\ pc \in {"recheck", "wait"})

\* C20: a Stop whose GetCommand succeeded reports, after tracker.Start, exactly
\* one of Success, SoftFail and Fail and returns nil, also when the termination
\* failed; Success is reported only at a liveness check that found the process
\* gone.
C20_OneOutcomeNilReturn == []C20_Outcome /\ [][C20_Success]_vars

\* the kill command fails: a hard failure, and Stop returns nil
C20_Witness ==
    /\ op = "stop" /\ pc = "done" /\ loadedPid > 0
    /\ errAt = "KillGroup" /\ tracker = <<"Start", "Fail">> /\ ret = "nil"

====
